---- MODULE Spec2Model ----
(***************************************************************************)
(* The Ockam message codec (implementations/rust/message/src/message.rs). *)
(*                                                                         *)
(* Every Codec implementation is a pure function over byte vectors.  The   *)
(* encoders take the value and the output Vec<u8> and give the Vec after   *)
(* the call; the decoders take the input slice and give one of             *)
(*   [kind |-> "Ok", val |-> value, rest |-> unconsumed slice]            *)
(*   [kind |-> "Err", msg |-> the String of the Err]                      *)
(*   [kind |-> "Panic"]   (an index or a slice start past the end)         *)
(* A state of the model is one use of the codec: a value handed to an      *)
(* encoder and the encoding handed back to the decoder, or a buffer        *)
(* received from a transport and handed to a decoder.                      *)
(***************************************************************************)
EXTENDS Integers, Sequences, FiniteSets, TLC

VARIABLES
    x,     \* the value handed to the encoder (its type and the value), if any;
           \* under SpecIo the Message that is read and written
    p,     \* what the output Vec<u8> held before the encoder was called
    v,     \* the output Vec<u8> of the encoder; under SpecIo the buf of read
    s,     \* the slice handed to the decoder; under SpecIo the buf of write
    ret,   \* the Result of the last call
    call,  \* the function called last
    pc     \* "value": before encode, "wire": before the decode of a received
           \* buffer, "encoded": after encode, "decoded": after decode,
           \* "io": a Message used through io::Read and io::Write

vars == <<x, p, v, s, ret, call, pc>>

(***************************************************************************)
(* Bounds of the model.                                                    *)
(***************************************************************************)
MaxRouteLen == 2
MaxWireLen == 4
MaxBufLen == 2

(***************************************************************************)
(* Byte arithmetic.                                                        *)
(***************************************************************************)
RECURSIVE BitAnd(_, _)
BitAnd(a, b) ==
    IF a = 0 \/ b = 0 THEN 0
    ELSE (a % 2) * (b % 2) + 2 * BitAnd(a \div 2, b \div 2)

BitOr(a, b) == a + b - BitAnd(a, b)

Shl8(b, n) == (b * (2 ^ n)) % 256

Shr8(b, n) == b \div (2 ^ n)

AsU8(n) == n % 256

U16ToLeBytes(n) == <<n % 256, n \div 256>>

U16FromLeBytes(b) == b[1] + 256 * b[2]

\* A u32 is held as its two 16-bit halves: its values reach 2^32 - 1.
U32ToLeBytes(a) == U16ToLeBytes(a.lo) \o U16ToLeBytes(a.hi)

U32FromLeBytes(b) ==
    [lo |-> U16FromLeBytes(<<b[1], b[2]>>), hi |-> U16FromLeBytes(<<b[3], b[4]>>)]

\* &u[n..]: the slice from index n (0-based) on; the caller checks n <= len.
SliceFrom(u, n) == SubSeq(u, n + 1, Len(u))

Ok(val, rest) == [kind |-> "Ok", val |-> val, rest |-> rest]

Err(msg) == [kind |-> "Err", msg |-> msg]

Panic == [kind |-> "Panic"]

EncOk == [kind |-> "Ok"]

(***************************************************************************)
(* The values.                                                             *)
(***************************************************************************)
AddressTypeAsU8(t) ==
    CASE t = "Local" -> 0
      [] t = "Tcp" -> 1
      [] t = "Udp" -> 2

AddressTypeTryFrom_Shifted(data) ==
    CASE data = 0 -> [kind |-> "Ok", val |-> "Local"]
      [] data = 1 -> [kind |-> "Ok", val |-> "Udp"]
      [] data = 2 -> [kind |-> "Ok", val |-> "Tcp"]
      [] OTHER -> Err("Unknown address type")

AddressTypeTryFrom(data) ==
    CASE data = 0 -> [kind |-> "Ok", val |-> "Local"]
      [] data = 1 -> [kind |-> "Ok", val |-> "Tcp"]
      [] data = 2 -> [kind |-> "Ok", val |-> "Udp"]
      [] OTHER -> Err("Unknown address type")

HostAddressTypeAsU8(f) ==
    CASE f = "Ipv4" -> 0
      [] f = "Ipv6" -> 1

HostAddressTypeTryFrom(data) ==
    CASE data = 0 -> [kind |-> "Ok", val |-> "Ipv4"]
      [] data = 1 -> [kind |-> "Ok", val |-> "Ipv6"]
      [] OTHER -> Err("Unknown host address type")

LocalAddress(a) == [address |-> a]

IpV4(o) == [family |-> "V4", octets |-> o]

IpV6(o) == [family |-> "V6", octets |-> o]

LocalAddr(t, la) == [variant |-> "LocalAddress", t |-> t, la |-> la]

TcpAddr(t, ip, port) == [variant |-> "TcpAddress", t |-> t, ip |-> ip, port |-> port]

UdpAddr(t, ip, port) == [variant |-> "UdpAddress", t |-> t, ip |-> ip, port |-> port]

Route(addrs) == [addresses |-> addrs]

Message(onward, return, body) ==
    [onward_route |-> onward, return_route |-> return, message_body |-> body]

MessageDefault == Message(Route(<<>>), Route(<<>>), <<0>>)

(***************************************************************************)
(* impl Codec for LocalAddress                                             *)
(***************************************************************************)
LocalAddressEncode(la, u) == u \o U32ToLeBytes(la.address)

LocalAddressDecode(u) ==
    IF Len(u) < 4 THEN Panic
    ELSE Ok(LocalAddress(U32FromLeBytes(<<u[1], u[2], u[3], u[4]>>)), SliceFrom(u, 4))

(***************************************************************************)
(* impl Codec for IpAddr                                                   *)
(***************************************************************************)
IpAddrEncode(ip, vec) ==
    IF ip.family = "V4"
    THEN Append(vec, HostAddressTypeAsU8("Ipv4")) \o ip.octets
    ELSE Append(vec, HostAddressTypeAsU8("Ipv6")) \o ip.octets

IpAddrDecode(u) ==
    IF Len(u) < 1 THEN Panic
    ELSE LET ty == HostAddressTypeTryFrom(u[1])
             addr == SliceFrom(u, 1)
         IN  IF ty.kind = "Err" THEN ty
             ELSE IF ty.val = "Ipv4"
                  THEN IF Len(addr) < 4 THEN Panic
                       ELSE Ok(IpV4(<<addr[1], addr[2], addr[3], addr[4]>>),
                               SliceFrom(u, 5))
                  ELSE Err("")

(***************************************************************************)
(* impl Codec for Address                                                  *)
(***************************************************************************)
AddressEncode(a, vec) ==
    CASE a.variant = "LocalAddress" ->
           LocalAddressEncode(a.la, Append(vec, AddressTypeAsU8(a.t)))
      [] a.variant = "UdpAddress" ->
           IpAddrEncode(a.ip, Append(vec, AddressTypeAsU8(a.t))) \o U16ToLeBytes(a.port)
      [] a.variant = "TcpAddress" ->
           IpAddrEncode(a.ip, Append(vec, AddressTypeAsU8(a.t))) \o U16ToLeBytes(a.port)

AddressDecode(u) ==
    IF Len(u) < 1 THEN Panic
    ELSE LET ty == AddressTypeTryFrom(u[1])
         IN  IF ty.kind = "Err" THEN ty
             ELSE CASE ty.val = "Local" ->
                         LET r == LocalAddressDecode(SliceFrom(u, 1))
                         IN  IF r.kind = "Ok"
                             THEN Ok(LocalAddr("Local", r.val), r.rest)
                             ELSE r
                    [] ty.val = "Tcp" -> Err("Not Implemented")
                    [] ty.val = "Udp" ->
                         LET r == IpAddrDecode(SliceFrom(u, 1))
                         IN  IF r.kind # "Ok" THEN r
                             ELSE IF Len(r.rest) < 2 THEN Panic
                             ELSE Ok(UdpAddr("Udp", r.val,
                                             U16FromLeBytes(<<r.rest[1], r.rest[2]>>)),
                                     SliceFrom(r.rest, 2))

(***************************************************************************)
(* impl Codec for Route                                                    *)
(***************************************************************************)
\* for i in 0..route.addresses.len(): the addresses lo..hi are encoded in
\* order.  The range is halved so that a long route is evaluated at a small
\* depth; the test of Len(first) only makes the first half be evaluated
\* before the second is begun.
RECURSIVE RouteEncodeLoop(_, _, _, _)
RouteEncodeLoop(addrs, lo, hi, u) ==
    IF lo > hi THEN u
    ELSE IF lo = hi THEN AddressEncode(addrs[lo], u)
    ELSE LET mid == (lo + hi) \div 2
             first == RouteEncodeLoop(addrs, lo, mid, u)
         IN  IF Len(first) >= Len(u)
             THEN RouteEncodeLoop(addrs, mid + 1, hi, first)
             ELSE RouteEncodeLoop(addrs, mid + 1, hi, first)

RouteEncode(route, u) ==
    IF Len(route.addresses) = 0
    THEN Append(u, 0)
    ELSE RouteEncodeLoop(route.addresses, 1, Len(route.addresses),
                         Append(u, AsU8(Len(route.addresses))))

\* The body of the loop of Route::decode, on the loop's variables.
RouteDecodeStep(st) ==
    IF st.kind # "Run" THEN st
    ELSE LET r == AddressDecode(st.next_address)
         IN  CASE r.kind = "Ok" ->
                    [kind |-> "Run", next_address |-> r.rest,
                     addresses |-> Append(st.addresses, r.val), err |-> ""]
               [] r.kind = "Err" -> st
               [] r.kind = "Panic" ->
                    [kind |-> "Panic", next_address |-> st.next_address,
                     addresses |-> st.addresses, err |-> ""]

\* for i in 0..encoded[0]: the body runs n times (halved as above).
RECURSIVE RouteDecodeLoop(_, _)
RouteDecodeLoop(n, st) ==
    IF n = 0 THEN st
    ELSE IF n = 1 THEN RouteDecodeStep(st)
    ELSE LET half == RouteDecodeLoop(n \div 2, st)
         IN  IF half.kind # "Run" THEN half
             ELSE RouteDecodeLoop(n - (n \div 2), half)

RouteDecode(encoded) ==
    IF Len(encoded) < 1 THEN Panic
    ELSE LET st == RouteDecodeLoop(encoded[1],
                       [kind |-> "Run", next_address |-> SliceFrom(encoded, 1),
                        addresses |-> <<>>, err |-> ""])
         IN  CASE st.kind = "Run" -> Ok(Route(st.addresses), st.next_address)
               [] st.kind = "Err" -> Err(st.err)
               [] st.kind = "Panic" -> Panic

(***************************************************************************)
(* impl Codec for u16                                                      *)
(***************************************************************************)
U16Encode_NoCarry(ul2, u) ==
    IF ul2 >= 49152 THEN [ret |-> Err("Maximum value exceeded"), u |-> u]
    ELSE LET bytes == U16ToLeBytes(ul2)
         IN  IF ul2 < 128 THEN [ret |-> EncOk, u |-> Append(u, bytes[1])]
             ELSE [ret |-> EncOk,
                   u |-> u \o <<BitOr(bytes[1], 128), Shl8(bytes[2], 1)>>]

U16Encode(ul2, u) ==
    IF ul2 >= 49152 THEN [ret |-> Err("Maximum value exceeded"), u |-> u]
    ELSE LET bytes == U16ToLeBytes(ul2)
         IN  IF ul2 < 128 THEN [ret |-> EncOk, u |-> Append(u, bytes[1])]
             ELSE LET b1 == IF BitAnd(bytes[1], 128) # 0
                            THEN BitOr(Shl8(bytes[2], 1), 1)
                            ELSE Shl8(bytes[2], 1)
                      b0 == BitOr(bytes[1], 128)
                  IN  [ret |-> EncOk, u |-> u \o <<b0, b1>>]

U16Decode(u) ==
    IF Len(u) < 1 THEN Panic
    ELSE LET lo == BitAnd(u[1], 127)
         IN  IF BitAnd(u[1], 128) = 128
             THEN IF Len(u) < 2 THEN Panic
                  ELSE LET b0 == lo + Shl8(BitAnd(u[2], 1), 7)
                           b1 == Shr8(u[2], 1)
                       IN  Ok(b1 * 256 + b0, SliceFrom(u, 2))
             ELSE Ok(lo, SliceFrom(u, 1))

(***************************************************************************)
(* impl Codec for Message                                                  *)
(***************************************************************************)
MessageEncode_LengthPrefixed(msg, u) ==
    RouteEncode(msg.return_route, RouteEncode(msg.onward_route, u))
        \o <<Len(msg.message_body)>> \o msg.message_body

MessageEncode(msg, u) ==
    RouteEncode(msg.return_route, RouteEncode(msg.onward_route, u))
        \o SliceFrom(msg.message_body, 0)

MessageDecode(u) ==
    LET r1 == RouteDecode(u)
    IN  IF r1.kind # "Ok" THEN r1
        ELSE LET r2 == RouteDecode(r1.rest)
             IN  IF r2.kind # "Ok" THEN r2
                 ELSE Ok(Message(r1.val, r2.val,
                                 MessageDefault.message_body \o r2.rest),
                         r2.rest)

(***************************************************************************)
(* The values handed to the encoders and the buffers handed to the         *)
(* decoders.                                                               *)
(***************************************************************************)
U16Max == 65535

U16Values == 0..U16Max

LocalAddresses ==
    { LocalAddress([lo |-> 515, hi |-> 1]),
      LocalAddress([lo |-> 0, hi |-> 0]),
      LocalAddress([lo |-> 65535, hi |-> 65535]) }

Ipv4Addrs == { IpV4(<<127, 0, 0, 1>>), IpV4(<<10, 0, 1, 10>>), IpV4(<<255, 255, 255, 255>>) }

Ipv6Addrs ==
    { IpV6(<<0, 0, 0, 0, 0, 0, 0, 0, 0, 0, 0, 0, 0, 0, 0, 1>>),
      IpV6(<<254, 128, 0, 0, 0, 0, 0, 0, 0, 0, 0, 0, 0, 0, 1, 2>>) }

IpAddrs == Ipv4Addrs \cup Ipv6Addrs

Ports == { 32896, 28784, 1 }

AddressTypes == { "Local", "Tcp", "Udp" }

\* enum Address: each variant carries an AddressType of its own.
Addresses ==
    { LocalAddr(t, la) : t \in AddressTypes, la \in LocalAddresses }
    \cup { UdpAddr(t, ip, port) : t \in AddressTypes, ip \in IpAddrs, port \in Ports }
    \cup { TcpAddr(t, ip, port) : t \in AddressTypes, ip \in IpAddrs, port \in Ports }

\* The addresses the routes are built of.
HopAddresses ==
    { LocalAddr("Local", LocalAddress([lo |-> 515, hi |-> 1])),
      UdpAddr("Udp", IpV4(<<127, 0, 0, 1>>), 32896),
      UdpAddr("Udp", IpV6(<<0, 0, 0, 0, 0, 0, 0, 0, 0, 0, 0, 0, 0, 0, 0, 1>>), 28784),
      TcpAddr("Tcp", IpV4(<<10, 0, 1, 10>>), 28784),
      LocalAddr("Udp", LocalAddress([lo |-> 0, hi |-> 0])) }

MessageHopAddresses ==
    { LocalAddr("Local", LocalAddress([lo |-> 515, hi |-> 1])),
      UdpAddr("Udp", IpV4(<<127, 0, 0, 1>>), 32896),
      TcpAddr("Tcp", IpV4(<<10, 0, 1, 10>>), 28784) }

SeqsUpTo(S, n) == UNION { [1..k -> S] : k \in 0..n }

Routes == { Route(a) : a \in SeqsUpTo(HopAddresses, MaxRouteLen) }

U8Max == 255

\* Routes at and just past what the count byte can hold.
LongRoutes ==
    { Route([i \in 1..n |-> LocalAddr("Local", LocalAddress([lo |-> 515, hi |-> 1]))]) :
        n \in { U8Max, U8Max + 1 } }

MessageRoutes == { Route(a) : a \in SeqsUpTo(MessageHopAddresses, MaxRouteLen) }

Bodies == { <<>>, <<0>>, <<5>>, <<0, 5>> }

Messages ==
    { Message(o, r, b) : o \in MessageRoutes, r \in MessageRoutes, b \in Bodies }

Value(type, val) == [type |-> type, val |-> val]

NoValue == Value("none", <<>>)

\* x is one of the values an encoder takes.
IsValue(val) ==
    \/ \E n \in U16Values : val = Value("u16", n)
    \/ \E la \in LocalAddresses : val = Value("LocalAddress", la)
    \/ \E ip \in IpAddrs : val = Value("IpAddr", ip)
    \/ \E a \in Addresses : val = Value("Address", a)
    \/ \E r \in Routes \cup LongRoutes : val = Value("Route", r)
    \/ \E m \in Messages : val = Value("Message", m)

\* What the output Vec<u8> holds before the call.
Priors == { <<>>, <<9>> }

WireBytes == { 0, 1, 2, 7, 129 }

Prefixes(e) == { SubSeq(e, 1, n) : n \in 0..Len(e) }

\* The encodings of the sample values, cut short anywhere.
TruncatedEncodings ==
    UNION ( { Prefixes(AddressEncode(a, <<>>)) : a \in Addresses }
            \cup { Prefixes(RouteEncode(r, <<>>)) : r \in Routes } )

WireInputs == SeqsUpTo(WireBytes, MaxWireLen) \cup TruncatedEncodings

(***************************************************************************)
(* The state machine: one value encoded and decoded again, or one buffer   *)
(* decoded.                                                                *)
(***************************************************************************)
NoResult == [kind |-> "None"]

Init ==
    /\ ret = NoResult
    /\ call = "none"
    /\ \/ /\ pc = "value"
          /\ IsValue(x)
          /\ p \in Priors
          /\ v = p
          /\ s = <<>>
       \/ /\ pc = "wire"
          /\ x = NoValue
          /\ p = <<>>
          /\ v = <<>>
          /\ s \in WireInputs

\* An encoder that always returns Ok(()) is called on x and v; the caller
\* then passes &v to the decoder.
Encoded(name, out) ==
    /\ v' = out
    /\ s' = out
    /\ ret' = EncOk
    /\ call' = name
    /\ pc' = "encoded"
    /\ UNCHANGED <<x, p>>

Decoded(name, result) ==
    /\ ret' = result
    /\ call' = name
    /\ pc' = "decoded"
    /\ UNCHANGED <<x, p, v, s>>

CanEncode(type) == pc = "value" /\ x.type = type

CanDecode(type) == pc = "wire" \/ (pc = "encoded" /\ x.type = type)

LocalAddressEncodeCall ==
    /\ CanEncode("LocalAddress")
    /\ Encoded("LocalAddress::encode", LocalAddressEncode(x.val, v))

IpAddrEncodeCall ==
    /\ CanEncode("IpAddr")
    /\ Encoded("IpAddr::encode", IpAddrEncode(x.val, v))

AddressEncodeCall ==
    /\ CanEncode("Address")
    /\ Encoded("Address::encode", AddressEncode(x.val, v))

RouteEncodeCall ==
    /\ CanEncode("Route")
    /\ Encoded("Route::encode", RouteEncode(x.val, v))

MessageEncodeCall ==
    /\ CanEncode("Message")
    /\ Encoded("Message::encode", MessageEncode(x.val, v))

U16EncodeCall ==
    /\ CanEncode("u16")
    /\ LET r == U16Encode(x.val, v)
       IN  /\ v' = r.u
           /\ s' = r.u
           /\ ret' = r.ret
    /\ call' = "u16::encode"
    /\ pc' = "encoded"
    /\ UNCHANGED <<x, p>>

LocalAddressDecodeCall ==
    /\ CanDecode("LocalAddress")
    /\ Decoded("LocalAddress::decode", LocalAddressDecode(s))

IpAddrDecodeCall ==
    /\ CanDecode("IpAddr")
    /\ Decoded("IpAddr::decode", IpAddrDecode(s))

AddressDecodeCall ==
    /\ CanDecode("Address")
    /\ Decoded("Address::decode", AddressDecode(s))

RouteDecodeCall ==
    /\ CanDecode("Route")
    /\ Decoded("Route::decode", RouteDecode(s))

MessageDecodeCall ==
    /\ CanDecode("Message")
    /\ Decoded("Message::decode", MessageDecode(s))

U16DecodeCall ==
    /\ CanDecode("u16")
    /\ Decoded("u16::decode", U16Decode(s))

Next ==
    \/ LocalAddressEncodeCall
    \/ IpAddrEncodeCall
    \/ AddressEncodeCall
    \/ RouteEncodeCall
    \/ MessageEncodeCall
    \/ U16EncodeCall
    \/ LocalAddressDecodeCall
    \/ IpAddrDecodeCall
    \/ AddressDecodeCall
    \/ RouteDecodeCall
    \/ MessageDecodeCall
    \/ U16DecodeCall

Spec == Init /\ [][Next]_vars

(***************************************************************************)
(* impl std::io::Read for Message, impl std::io::Write for Message         *)
(***************************************************************************)
IoOk(n) == [kind |-> "Ok", val |-> n]

IoError(msg) == [kind |-> "Err", error_kind |-> "Other", msg |-> msg]

\* buf is the caller's &mut [u8]; the result holds it after the call.
MessageRead(self, buf) ==
    IF Len(buf) < Len(self.message_body)
    THEN [ret |-> IoError("buffer too small"), buf |-> buf]
    ELSE [ret |-> IoOk(Len(self.message_body)),
          buf |-> [i \in 1..Len(buf) |->
                     IF i <= Len(self.message_body) THEN self.message_body[i]
                     ELSE buf[i]]]

MessageWrite_NoCheck(self, buf) ==
    LET body == self.message_body \o buf
    IN  [ret |-> IoOk(Len(body)), self |-> [self EXCEPT !.message_body = body]]

MessageWrite(self, buf) ==
    IF Len(self.message_body) # 0
    THEN [ret |-> IoError("no message body"), self |-> self]
    ELSE LET body == self.message_body \o buf
         IN  [ret |-> IoOk(Len(body)), self |-> [self EXCEPT !.message_body = body]]

MessageFlush == EncOk

\* The messages the calls are made on: Message::default() and messages
\* built with an empty body.
IoMessages ==
    { MessageDefault,
      Message(Route(<<>>), Route(<<>>), <<>>),
      Message(Route(<<UdpAddr("Udp", IpV4(<<127, 0, 0, 1>>), 32896)>>),
              Route(<<LocalAddr("Local", LocalAddress([lo |-> 515, hi |-> 1]))>>),
              <<>>) }

IoBytes == { 0, 5 }

WriteBufs == SeqsUpTo(IoBytes, MaxBufLen)

\* The caller's read buffer of n bytes before the call.
ReadBuf(n) == [i \in 1..n |-> 9]

InitIo ==
    /\ pc = "io"
    /\ \E m \in IoMessages : x = Value("Message", m)
    /\ p = <<>>
    /\ v = <<>>
    /\ s = <<>>
    /\ ret = NoResult
    /\ call = "none"

WriteCall ==
    /\ pc = "io"
    /\ \E buf \in WriteBufs :
          LET r == MessageWrite(x.val, buf)
          IN  /\ x' = Value("Message", r.self)
              /\ s' = buf
              /\ ret' = r.ret
    /\ call' = "Message::write"
    /\ UNCHANGED <<p, v, pc>>

ReadCall ==
    /\ pc = "io"
    /\ \E n \in 0..(MaxBufLen + 1) :
          LET r == MessageRead(x.val, ReadBuf(n))
          IN  /\ v' = r.buf
              /\ ret' = r.ret
    /\ call' = "Message::read"
    /\ UNCHANGED <<x, p, s, pc>>

FlushCall ==
    /\ pc = "io"
    /\ ret' = MessageFlush
    /\ call' = "Message::flush"
    /\ UNCHANGED <<x, p, v, s, pc>>

NextIo ==
    \/ WriteCall
    \/ ReadCall
    \/ FlushCall

SpecIo == InitIo /\ [][NextIo]_vars

(***************************************************************************)
(* Properties.                                                             *)
(***************************************************************************)
\* The bytes the last encoder appended to the output Vec.
Appended == SliceFrom(v, Len(p))

RoundTrip(type, decoder) ==
    pc = "decoded" /\ call = decoder /\ x.type = type /\ p = <<>>

IsLocalOrUdpV4(a) ==
    \/ a.variant = "LocalAddress"
    \/ a.variant = "UdpAddress" /\ a.ip.family = "V4"

AllLocalOrUdpV4(route) ==
    /\ Len(route.addresses) <= U8Max
    /\ \A i \in 1..Len(route.addresses) : IsLocalOrUdpV4(route.addresses[i])

\* C1: decoding the encoding of a Message whose routes hold Local or Udp-IPv4
\* addresses gives back the same onward route, return route and body, and
\* an empty remainder.
C1_MessageRoundTrip ==
    ( /\ RoundTrip("Message", "Message::decode")
      /\ AllLocalOrUdpV4(x.val.onward_route)
      /\ AllLocalOrUdpV4(x.val.return_route) )
    => ret = Ok(x.val, <<>>)

\* C2: when both routes decode, the message_body Message::decode returns is
\* exactly the bytes of the buffer left after the return route.
C2_BodyIsRemainingSuffix ==
    (pc = "decoded" /\ call = "Message::decode")
    => LET r1 == RouteDecode(s)
       IN  r1.kind = "Ok"
           => LET r2 == RouteDecode(r1.rest)
              IN  r2.kind = "Ok"
                  => /\ ret.kind = "Ok"
                     /\ ret.val.message_body = r2.rest

\* C3: Message::encode leaves the prior content p of the buffer in place and
\* appends the encoding of the onward route, the encoding of the return
\* route and the body bytes verbatim, with nothing between or after them.
C3_MessageEncodeLayout ==
    (pc = "encoded" /\ call = "Message::encode")
    => /\ ret = EncOk
       /\ v = p \o RouteEncode(x.val.onward_route, <<>>)
                \o RouteEncode(x.val.return_route, <<>>)
                \o x.val.message_body

C3_Witness ==
    /\ pc = "encoded" /\ call = "Message::encode"
    /\ p # <<>>
    /\ Len(x.val.onward_route.addresses) = 2
    /\ Len(x.val.return_route.addresses) = 1
    /\ x.val.message_body = <<0, 5>>
    /\ Len(v) = Len(p) + 1 + Len(RouteEncode(x.val.onward_route, <<>>)) + 5 + 2

\* C4: decoding the encoding of a LocalAddress, of an IPv4 host address, of a
\* Local or Udp-IPv4 Address, or of a Route of such addresses gives back the
\* value and an empty remainder.
C4_AddressRouteRoundTrip ==
    /\ RoundTrip("LocalAddress", "LocalAddress::decode") => ret = Ok(x.val, <<>>)
    /\ (RoundTrip("IpAddr", "IpAddr::decode") /\ x.val.family = "V4")
       => ret = Ok(x.val, <<>>)
    /\ (RoundTrip("Address", "Address::decode") /\ IsLocalOrUdpV4(x.val))
       => ret = Ok(x.val, <<>>)
    /\ (RoundTrip("Route", "Route::decode") /\ AllLocalOrUdpV4(x.val))
       => ret = Ok(x.val, <<>>)

\* C5: for every value below 0xC000, u16::decode of what u16::encode emitted
\* gives back the value and an empty remainder, having consumed one byte for
\* a value below 0x80 and two bytes otherwise.
C5_U16RoundTrip ==
    (RoundTrip("u16", "u16::decode") /\ x.val < 49152)
    => /\ ret = Ok(x.val, <<>>)
       /\ Len(s) = IF x.val < 128 THEN 1 ELSE 2

\* C6: u16::encode appends one byte equal to the value when the value is
\* below 0x80; two bytes when it is in 0x80..0xBFFF, the first being 0x80 plus
\* the low 7 bits of the value, the second holding bit 7 of the value in its
\* bit 0 and, in its bits 1..7, the high byte of the value shifted left by
\* one within the byte; and it returns an error and appends nothing when the
\* value is 0xC000 or more.  The prior content of the buffer stays.
C6_U16EncodeLayout ==
    (pc = "encoded" /\ call = "u16::encode")
    => /\ SubSeq(v, 1, Len(p)) = p
       /\ CASE x.val < 128 ->
                 /\ ret = EncOk
                 /\ Appended = <<x.val>>
            [] x.val >= 128 /\ x.val < 49152 ->
                 /\ ret = EncOk
                 /\ Len(Appended) = 2
                 /\ Appended[1] = 128 + (x.val % 128)
                 /\ Appended[2] % 2 = (x.val \div 128) % 2
                 /\ Appended[2] \div 2 = (x.val \div 256) % 128
            [] OTHER ->
                 /\ ret.kind = "Err"
                 /\ v = p

C6_Witness ==
    /\ pc = "encoded" /\ call = "u16::encode"
    /\ p # <<>>
    /\ x.val = 4993
    /\ Appended = <<129, 39>>

\* C7: no decoder reads past the end of its input: every decode call, on any
\* buffer, returns a value or an error result, and LocalAddress::decode on
\* fewer than 4 bytes returns an error.
C7_TruncatedInputSafety ==
    pc = "decoded"
    => /\ ret.kind \in {"Ok", "Err"}
       /\ (call = "LocalAddress::decode" /\ Len(s) < 4) => ret.kind = "Err"

\* C8: when Address::decode fails on an address announced by the count byte,
\* Route::decode returns the error instead of a shorter route, and
\* Message::decode of a buffer holding such a route returns an error.
FirstAddressFails(u) ==
    Len(u) >= 1 /\ u[1] >= 1 /\ AddressDecode(SliceFrom(u, 1)).kind = "Err"

C8_DecodeErrorPropagation ==
    /\ (pc = "decoded" /\ call = "Route::decode" /\ ret.kind = "Ok")
       => Len(ret.val.addresses) = s[1]
    /\ (pc = "decoded" /\ call = "Route::decode" /\ FirstAddressFails(s))
       => ret.kind = "Err"
    /\ (pc = "decoded" /\ call = "Message::decode")
       => LET r1 == RouteDecode(s)
          IN  ( \/ FirstAddressFails(s)
                \/ r1.kind = "Ok" /\ FirstAddressFails(r1.rest) )
              => ret.kind = "Err"

\* C9: on a non-empty input Address::decode fails when the first byte is 1,
\* fails when the first byte is none of 0, 1, 2, and otherwise returns only
\* the variant the first byte names: a LocalAddress carrying
\* AddressType::Local for 0, a UdpAddress carrying AddressType::Udp for 2,
\* never a TcpAddress.
C9_AddressDecodeTagDispatch ==
    (pc = "decoded" /\ call = "Address::decode" /\ Len(s) >= 1)
    => /\ s[1] = 1 => ret.kind = "Err"
       /\ s[1] \notin {0, 1, 2} => ret.kind = "Err"
       /\ ret.kind = "Ok"
          => \/ s[1] = 0 /\ ret.val.variant = "LocalAddress" /\ ret.val.t = "Local"
             \/ s[1] = 2 /\ ret.val.variant = "UdpAddress" /\ ret.val.t = "Udp"

C9_Witness ==
    /\ pc = "decoded" /\ call = "Address::decode" /\ x = NoValue
    /\ Len(s) = 8 /\ s[1] = 2
    /\ ret.kind = "Ok" /\ ret.val.variant = "UdpAddress" /\ ret.val.port = 32896

\* C10: for every Address value, Address::encode appends the tag of the
\* value's variant (0 Local, 1 Tcp, 2 Udp), then for Local the 4
\* little-endian bytes of the identifier, for Tcp and Udp the IP family tag
\* (0 IPv4, 1 IPv6), the address octets and the port as 2 little-endian bytes.
C10_AddressEncodeLayout ==
    (pc = "encoded" /\ call = "Address::encode")
    => LET a == x.val
       IN  CASE a.variant = "LocalAddress" ->
                  Appended = <<0, a.la.address.lo % 256, a.la.address.lo \div 256,
                               a.la.address.hi % 256, a.la.address.hi \div 256>>
             [] a.variant = "TcpAddress" ->
                  Appended = <<1, IF a.ip.family = "V4" THEN 0 ELSE 1>>
                             \o a.ip.octets \o <<a.port % 256, a.port \div 256>>
             [] a.variant = "UdpAddress" ->
                  Appended = <<2, IF a.ip.family = "V4" THEN 0 ELSE 1>>
                             \o a.ip.octets \o <<a.port % 256, a.port \div 256>>

\* The AddressType an Address carries names its variant.
TypeNamesVariant(a) ==
    \/ a.variant = "LocalAddress" /\ a.t = "Local"
    \/ a.variant = "TcpAddress" /\ a.t = "Tcp"
    \/ a.variant = "UdpAddress" /\ a.t = "Udp"

\* Where the AddressType names the variant, the layout of C10 and the round
\* trip of C4 hold.
LayoutAndRoundTripOfMatchingAddresses ==
    /\ (x.type = "Address" /\ TypeNamesVariant(x.val)) => C10_AddressEncodeLayout
    /\ (x.type = "Address" /\ TypeNamesVariant(x.val)) => C4_AddressRouteRoundTrip
    /\ (x.type = "Route"
          /\ \A i \in 1..Len(x.val.addresses) : TypeNamesVariant(x.val.addresses[i]))
       => C4_AddressRouteRoundTrip
    /\ x.type \in {"LocalAddress", "IpAddr"} => C4_AddressRouteRoundTrip

\* C11: IpAddr::encode emits family tag 0 and 4 octets for IPv4, family tag
\* 1 and 16 octets for IPv6; IpAddr::decode gives back every address encode
\* emitted, IPv6 as well as IPv4, with an empty remainder; and on a buffer
\* that holds a family tag 0 or 1 and the octets it does not return an error.
C11_IpAddrCodecSymmetry ==
    /\ (pc = "encoded" /\ call = "IpAddr::encode")
       => /\ x.val.family = "V4"
             => Len(x.val.octets) = 4 /\ Appended = <<0>> \o x.val.octets
          /\ x.val.family = "V6"
             => Len(x.val.octets) = 16 /\ Appended = <<1>> \o x.val.octets
    /\ RoundTrip("IpAddr", "IpAddr::decode") => ret = Ok(x.val, <<>>)
    /\ (pc = "decoded" /\ call = "IpAddr::decode" /\ Len(s) >= 17 /\ s[1] \in {0, 1})
       => ret.kind = "Ok"

\* C12: the count byte Route::encode emits is the number of Address
\* encodings that follow it: a route of at most 255 addresses is emitted as
\* its length and all its addresses; a longer one is rejected with an error,
\* or emitted as a count of at most 255 and that many of its addresses.
C12_RouteCountByte ==
    (pc = "encoded" /\ call = "Route::encode")
    => LET addrs == x.val.addresses
       IN  \/ Len(addrs) > U8Max /\ ret.kind = "Err"
           \/ /\ ret = EncOk
              /\ \E n \in 0..U8Max :
                    /\ n <= Len(addrs)
                    /\ Len(addrs) <= U8Max => n = Len(addrs)
                    /\ Appended = <<n>> \o RouteEncodeLoop(addrs, 1, n, <<>>)

\* Within the capacity of the count byte the claim of C12 holds.
RouteCountByteWithinCapacity ==
    (x.type = "Route" /\ Len(x.val.addresses) <= U8Max) => C12_RouteCountByte

Body == x.val.message_body

\* C13: in any sequence of write, read and flush calls on a Message, a write
\* made while message_body is not empty returns an error and leaves the body
\* as it was; a write made while it is empty sets the body to the bytes of
\* buf; read and flush never change the body; so every write on
\* Message::default() fails and a body that is not empty never changes.
C13_BodyWriteOnce ==
    [][ /\ (call' = "Message::write" /\ Body # <<>>)
           => (ret'.kind = "Err" /\ x' = x)
        /\ (call' = "Message::write" /\ Body = <<>>)
           => (ret' = IoOk(Len(s')) /\ Body' = s')
        /\ call' \in {"Message::read", "Message::flush"} => x' = x
        /\ (call' = "Message::write" /\ x.val = MessageDefault)
           => (ret'.kind = "Err" /\ x'.val = MessageDefault)
        /\ Body # <<>> => Body' = Body
        /\ x'.val.onward_route = x.val.onward_route
        /\ x'.val.return_route = x.val.return_route ]_vars

\* A write that fails after an earlier write of <<5, 0>> went through.
C13_Witness ==
    /\ pc = "io" /\ call = "Message::write"
    /\ Body = <<5, 0>>
    /\ s = <<0>>
    /\ ret.kind = "Err"

====
